---- MODULE Spec2Model ----
(***************************************************************************)
(* Session authorization gate of the starter: the zustand auth store       *)
(* (useAuthStore), the redirect-loop guard kept in sessionStorage, the     *)
(* probe GET /api/user/me and the client route gate (AuthGuard).           *)
(*                                                                         *)
(* Strings the code inspects character by character (paths, URLs) are      *)
(* sequences of one-character strings; every other string is a TLA+ string.*)
(***************************************************************************)
EXTENDS Integers, Sequences, FiniteSets, TLC

\* ------------------------------------------------------------------ bounds
\* number of store actions that may be awaiting their API call at once
MaxCalls == 2
\* number of redirects to the identity provider followed in one behaviour
MaxRedirects == 2

\* ------------------------------------------------------------- JS values
\* null / undefined
Null == "null"
\* user: null
NoUser == [id |-> Null, role |-> Null]
\* JS truthiness of a string-or-null value (the left operand of ||)
Truthy(v) == v \notin {Null, ""}

UserRole == {"admin", "user", "guest"}
Users == {[id |-> "1", role |-> "admin"], [id |-> "2", role |-> "user"]}
AsyncState == {"idle", "loading", "success", "error"}

\* ------------------------------------------------------ character strings
startsWith(s, prefix) ==
  /\ Len(prefix) <= Len(s)
  /\ SubSeq(s, 1, Len(prefix)) = prefix

\* characters encodeURIComponent leaves alone: A-Z a-z 0-9 - _ . ! ~ * ' ( )
Unreserved ==
  {"a", "b", "c", "d", "e", "f", "g", "h", "i", "j", "k", "l", "m", "n", "o",
   "p", "q", "r", "s", "t", "u", "v", "w", "x", "y", "z",
   "A", "B", "C", "D", "E", "F", "U",
   "0", "1", "2", "3", "4", "5", "6", "7", "8", "9",
   "-", "_", ".", "!", "~", "*", "'", "(", ")"}

\* percent-encoding of the reserved ASCII characters that occur in the URLs
EscapeChar(c) ==
  CASE c = "/" -> <<"%", "2", "F">>
    [] c = ":" -> <<"%", "3", "A">>
    [] c = "?" -> <<"%", "3", "F">>
    [] c = "=" -> <<"%", "3", "D">>
    [] c = "&" -> <<"%", "2", "6">>
    [] c = "%" -> <<"%", "2", "5">>
    [] c = " " -> <<"%", "2", "0">>

RECURSIVE encodeURIComponent(_)
encodeURIComponent(s) ==
  IF s = <<>> THEN <<>>
  ELSE (IF Head(s) \in Unreserved THEN <<Head(s)>> ELSE EscapeChar(Head(s)))
       \o encodeURIComponent(Tail(s))

\* AUTH_CONFIG.SSO_LOGIN_URL = 'https://sso.cowexa.com/login'
SSO_LOGIN_URL ==
  <<"h", "t", "t", "p", "s", ":", "/", "/", "s", "s", "o", ".", "c", "o", "w",
    "e", "x", "a", ".", "c", "o", "m", "/", "l", "o", "g", "i", "n">>

\* the text '?redirect=' of the template literal
RedirectParam == <<"?", "r", "e", "d", "i", "r", "e", "c", "t", "=">>

\* `${AUTH_CONFIG.SSO_LOGIN_URL}?redirect=${encodeURIComponent(currentUrl)}`
ssoUrl(currentUrl) ==
  SSO_LOGIN_URL \o RedirectParam \o encodeURIComponent(currentUrl)

\* origin the app is served from
Origin == <<"h", "t", "t", "p", ":", "/", "/", "a", "p", "p">>

\* ------------------------------------------------------------ route paths
RootPath == <<"/">>
LoginPath == <<"/", "l", "o", "g", "i", "n">>
SignupPath == <<"/", "s", "i", "g", "n", "u", "p">>
DashboardPath == <<"/", "d", "a", "s", "h", "b", "o", "a", "r", "d">>
ProfilePath == <<"/", "p", "r", "o", "f", "i", "l", "e">>
SettingsPath == <<"/", "s", "e", "t", "t", "i", "n", "g", "s">>
ForbiddenPath == <<"/", "4", "0", "3">>
AdminUsersPath == <<"/", "a", "d", "m", "i", "n", "/", "u", "s", "e", "r", "s">>

\* paths a visitor asks for
Paths ==
  {RootPath, LoginPath, DashboardPath, ProfilePath \o <<"/", "e">>,
   ForbiddenPath, AdminUsersPath}

\* query strings of the URL a visitor opens the app with
Searches == {<<>>, <<"?", "q", "=", "a", "&", "p", "=", "1">>}

\* ------------------------------------------------------------- API results
\* ApiResponse<T> as the store reads it; kind "throw" is a rejected promise,
\* whose `error` is the thrown Error's message when isError
ApiResult(kind, success, data, statusCode, err, isError) ==
  [kind |-> kind, success |-> success, data |-> data,
   statusCode |-> statusCode, error |-> err, isError |-> isError]

NoResult == ApiResult("none", FALSE, NoUser, 0, Null, FALSE)

\* outcomes of authAPI.getCurrentUser(): 200 with the user record, 2xx
\* without a body, 401, 403, 500 with an empty message, the transport-level
\* failure that ApiClient.handleError reports as statusCode 0, and a rejection
ProbeResults ==
  {ApiResult("response", TRUE, u, 200, Null, FALSE) : u \in Users}
  \cup {ApiResult("response", TRUE, NoUser, 204, Null, FALSE),
        ApiResult("response", FALSE, NoUser, 401, "Unauthorized", FALSE),
        ApiResult("response", FALSE, NoUser, 403, "Forbidden", FALSE),
        ApiResult("response", FALSE, NoUser, 500, "", FALSE),
        ApiResult("response", FALSE, NoUser, 0, "Failed to fetch", FALSE),
        ApiResult("throw", FALSE, NoUser, 0, "Failed to fetch", TRUE),
        ApiResult("throw", FALSE, NoUser, 0, Null, FALSE)}

\* outcomes of authAPI.login(): the mock's user, its 401, and a rejection
LoginResults ==
  {ApiResult("response", TRUE, [id |-> "2", role |-> "user"], 200, Null, FALSE),
   ApiResult("response", FALSE, NoUser, 401, "invalid credentials", FALSE),
   ApiResult("throw", FALSE, NoUser, 0, Null, FALSE)}

\* outcomes of authAPI.signup()
SignupResults ==
  {ApiResult("response", TRUE, [id |-> "2", role |-> "user"], 201, Null, FALSE),
   ApiResult("response", FALSE, NoUser, 500, "", FALSE),
   ApiResult("throw", FALSE, NoUser, 0, "Failed to fetch", TRUE)}

\* outcomes of authAPI.logout()
LogoutResults ==
  {ApiResult("response", TRUE, NoUser, 200, Null, FALSE),
   ApiResult("throw", FALSE, NoUser, 0, "Failed to fetch", TRUE)}

\* the fallback messages of the store's `||` and `instanceof Error ? :`
LoadUserFailedMessage == "failed to load the user"
LoginFailedMessage == "failed to log in"
SignupFailedMessage == "failed to sign up"

\* error instanceof Error ? error.message : fallback
CaughtMessage(r, fallback) == IF r.isError THEN r.error ELSE fallback

\* result.error || fallback
ErrorOr(r, fallback) == IF Truthy(r.error) THEN r.error ELSE fallback

\* ------------------------------------------------------------------ state
VARIABLES
  user,             \* AuthState.user
  isAuthenticated,  \* AuthState.isAuthenticated
  status,           \* AuthState.status
  error,            \* AuthState.error
  auth_redirecting, \* sessionStorage item 'auth_redirecting' of the tab
  calls,            \* store actions suspended at their await
  pathname,         \* usePathname() of the page shown
  search,           \* query string of window.location
  navigatedTo,      \* external URL assigned to window.location.href, or <<>>
  mounted,          \* the AuthGuard mount effect of this page load has run
  ssoRedirects,     \* redirects to the identity provider in a row
  integratedAuthUrl, \* process.env.NEXT_PUBLIC_INTEGRATED_AUTH_URL, or <<>>
  lastStep,         \* what the step that led to this state did
  modals,           \* ModalState.modals of useModalStore
  tabs,             \* TabState.tabs of useTabStore
  activeTab,        \* TabState.activeTab
  apiState,         \* the state of a useApiClient hook
  fetches           \* the fetches started through that hook, in order

vars ==
  <<user, isAuthenticated, status, error, auth_redirecting, calls, pathname,
    search, navigatedTo, mounted, ssoRedirects, integratedAuthUrl, lastStep,
    modals, tabs, activeTab, apiState, fetches>>

\* the state of the session gate
session ==
  <<user, isAuthenticated, status, error, auth_redirecting, calls, pathname,
    search, navigatedTo, mounted, ssoRedirects, integratedAuthUrl>>

\* the state of the modal store, the tab store and the useApiClient hook
ui == <<modals, tabs, activeTab, apiState, fetches>>

\* useState's initial ApiState
InitialApiState ==
  [data |-> Null, loading |-> FALSE, error |-> Null, statusCode |-> Null,
   from |-> 0]

\* the initial state of both stores and of the hook
InitialUi ==
  /\ modals = <<>>
  /\ tabs = <<>>
  /\ activeTab = Null
  /\ apiState = InitialApiState
  /\ fetches = <<>>

store == <<user, isAuthenticated, status, error>>

Call == 1 .. MaxCalls

\* a free slot of `calls`
NoCall == [op |-> "none", isRedirecting |-> Null]

\* c is the slot the next call is kept in
FreeCall(c) ==
  /\ calls[c] = NoCall
  /\ \A d \in Call : d < c => calls[d] # NoCall

\* window.location.href
href == Origin \o pathname \o search

\* the record kept in lastStep: the operation, the call and API result it
\* resumed with, the guard flag when the call was made and just before this
\* step, and the storage writes and navigations of the step in program order
Step(op, c, r, entryFlag, effects) ==
  [op |-> op, call |-> c, result |-> r, entryFlag |-> entryFlag,
   flagBefore |-> auth_redirecting, effects |-> effects]

\* the page is being replaced by the identity provider's
Leaving == navigatedTo # <<>>

\* useAuthStore's initial state, as every page load creates it
InitialStore ==
  /\ user = NoUser
  /\ isAuthenticated = FALSE
  /\ status = "idle"
  /\ error = Null

Init ==
  /\ InitialStore
  /\ InitialUi
  /\ auth_redirecting = Null
  /\ calls = [c \in Call |-> NoCall]
  /\ pathname \in Paths
  /\ search \in Searches
  /\ navigatedTo = <<>>
  /\ mounted = FALSE
  /\ ssoRedirects = 0
  /\ integratedAuthUrl = <<>>
  /\ lastStep = Step("load", 0, NoResult, Null, <<>>)

\* ---------------------------------------------------------------- loadUser
\* loadUser up to its await: drop a flag left by the previous page, then
\* status 'loading'
loadUser_begin(c) ==
  /\ FreeCall(c)
  /\ auth_redirecting' = IF auth_redirecting = "true" THEN Null
                         ELSE auth_redirecting
  /\ status' = "loading"
  /\ calls' = [calls EXCEPT ![c] = [op |-> "loadUser",
                                    isRedirecting |-> auth_redirecting]]
  /\ lastStep' = Step("loadUser", c, NoResult, auth_redirecting,
                      IF auth_redirecting = "true" THEN <<"removeItem">>
                      ELSE <<>>)
  /\ UNCHANGED <<user, isAuthenticated, error, navigatedTo, ssoRedirects>>

\* loadUser_success without the removeItem that follows its set()
loadUser_success_keepsFlag(c, r) ==
  /\ user' = r.data
  /\ isAuthenticated' = TRUE
  /\ status' = "success"
  /\ ssoRedirects' = 0
  /\ lastStep' = Step("loadUser_resume", c, r, calls[c].isRedirecting, <<>>)
  /\ UNCHANGED <<error, auth_redirecting, navigatedTo>>

\* 200 OK with a user record
loadUser_success(c, r) ==
  /\ user' = r.data
  /\ isAuthenticated' = TRUE
  /\ status' = "success"
  /\ auth_redirecting' = Null
  /\ ssoRedirects' = 0
  /\ lastStep' = Step("loadUser_resume", c, r, calls[c].isRedirecting,
                      <<"removeItem">>)
  /\ UNCHANGED <<error, navigatedTo>>

\* loadUser_redirect that passes the current URL on without encoding it and
\* marks the redirect only after starting it
loadUser_redirect_unencoded(c, r) ==
  /\ auth_redirecting' = "true"
  /\ navigatedTo' = SSO_LOGIN_URL \o RedirectParam \o href
  /\ ssoRedirects' = ssoRedirects + 1
  /\ lastStep' = Step("loadUser_resume", c, r, calls[c].isRedirecting,
                      <<"location.href", "setItem">>)
  /\ UNCHANGED <<user, isAuthenticated, status, error>>

\* 401 with no flag: set the flag and leave for the identity provider
loadUser_redirect(c, r) ==
  /\ auth_redirecting' = "true"
  /\ navigatedTo' = ssoUrl(href)
  /\ ssoRedirects' = ssoRedirects + 1
  /\ lastStep' = Step("loadUser_resume", c, r, calls[c].isRedirecting,
                      <<"setItem", "location.href">>)
  /\ UNCHANGED <<user, isAuthenticated, status, error>>

\* loadUser_unauthenticated without its set()
loadUser_unauthenticated_keepsLoading(c, r) ==
  /\ ssoRedirects' = 0
  /\ lastStep' = Step("loadUser_resume", c, r, calls[c].isRedirecting, <<>>)
  /\ UNCHANGED <<user, isAuthenticated, status, error, auth_redirecting,
                 navigatedTo>>

\* 401 with the flag set
loadUser_unauthenticated(c, r) ==
  /\ user' = NoUser
  /\ isAuthenticated' = FALSE
  /\ status' = "idle"
  /\ ssoRedirects' = 0
  /\ lastStep' = Step("loadUser_resume", c, r, calls[c].isRedirecting, <<>>)
  /\ UNCHANGED <<error, auth_redirecting, navigatedTo>>

\* loadUser_error that sends every failure to the identity provider
loadUser_error_redirects(c, r) ==
  /\ user' = NoUser
  /\ isAuthenticated' = FALSE
  /\ status' = "idle"
  /\ navigatedTo' = ssoUrl(href)
  /\ ssoRedirects' = ssoRedirects + 1
  /\ lastStep' = Step("loadUser_resume", c, r, calls[c].isRedirecting,
                      <<"location.href">>)
  /\ UNCHANGED <<error, auth_redirecting>>

\* any other response, and the catch block
loadUser_error(c, r) ==
  /\ user' = NoUser
  /\ isAuthenticated' = FALSE
  /\ status' = "idle"
  /\ error' = IF r.kind = "throw" THEN CaughtMessage(r, LoadUserFailedMessage)
              ELSE ErrorOr(r, LoadUserFailedMessage)
  /\ ssoRedirects' = 0
  /\ lastStep' = Step("loadUser_resume", c, r, calls[c].isRedirecting, <<>>)
  /\ UNCHANGED <<auth_redirecting, navigatedTo>>

\* loadUser from the moment authAPI.getCurrentUser() settles with r
loadUser_resume(c, r) ==
  /\ calls[c].op = "loadUser"
  /\ calls' = [calls EXCEPT ![c] = NoCall]
  /\ IF r.kind = "throw" THEN loadUser_error(c, r)
     ELSE IF r.success /\ r.data # NoUser THEN loadUser_success(c, r)
     ELSE IF r.statusCode = 401
       THEN IF auth_redirecting # "true" THEN loadUser_redirect(c, r)
            ELSE loadUser_unauthenticated(c, r)
     ELSE loadUser_error(c, r)
  /\ UNCHANGED <<pathname, search, mounted, integratedAuthUrl,
                 ui>>

\* ------------------------------------------- login, signup, logout, clearError
\* a store action that sets status 'loading' and clears the error before
\* its await (login, signup)
beginLoading(c, op) ==
  /\ FreeCall(c)
  /\ status' = "loading"
  /\ error' = Null
  /\ calls' = [calls EXCEPT ![c] = [op |-> op, isRedirecting |-> Null]]
  /\ lastStep' = Step(op, c, NoResult, Null, <<>>)
  /\ UNCHANGED <<user, isAuthenticated, auth_redirecting, pathname, search,
                 navigatedTo, mounted, integratedAuthUrl, ssoRedirects,
                 ui>>

login_begin(c) == beginLoading(c, "login")

\* login_resume that marks a redirect in sessionStorage
login_resume_setsFlag(c, r) ==
  /\ calls[c].op = "login"
  /\ calls' = [calls EXCEPT ![c] = NoCall]
  /\ IF r.kind # "throw" /\ r.success /\ r.data # NoUser
     THEN /\ user' = r.data
          /\ isAuthenticated' = TRUE
          /\ status' = "success"
          /\ error' = Null
     ELSE /\ status' = "error"
          /\ error' = IF r.kind = "throw"
                      THEN CaughtMessage(r, LoginFailedMessage)
                      ELSE ErrorOr(r, LoginFailedMessage)
          /\ UNCHANGED <<user, isAuthenticated>>
  /\ auth_redirecting' = "true"
  /\ lastStep' = Step("login_resume", c, r, Null, <<"setItem">>)
  /\ UNCHANGED <<pathname, search, navigatedTo, mounted, integratedAuthUrl,
                 ssoRedirects,
                 ui>>

login_resume(c, r) ==
  /\ calls[c].op = "login"
  /\ calls' = [calls EXCEPT ![c] = NoCall]
  /\ IF r.kind # "throw" /\ r.success /\ r.data # NoUser
     THEN /\ user' = r.data
          /\ isAuthenticated' = TRUE
          /\ status' = "success"
          /\ error' = Null
     ELSE /\ status' = "error"
          /\ error' = IF r.kind = "throw"
                      THEN CaughtMessage(r, LoginFailedMessage)
                      ELSE ErrorOr(r, LoginFailedMessage)
          /\ UNCHANGED <<user, isAuthenticated>>
  /\ lastStep' = Step("login_resume", c, r, Null, <<>>)
  /\ UNCHANGED <<auth_redirecting, pathname, search, navigatedTo,
                 mounted, integratedAuthUrl,
                 ssoRedirects,
                 ui>>

signup_begin(c) == beginLoading(c, "signup")

\* signup_resume that marks the session authenticated on success
signup_resume_authenticates(c, r) ==
  /\ calls[c].op = "signup"
  /\ calls' = [calls EXCEPT ![c] = NoCall]
  /\ IF r.kind # "throw" /\ r.success
     THEN /\ status' = "success"
          /\ error' = Null
          /\ isAuthenticated' = TRUE
     ELSE /\ status' = "error"
          /\ error' = IF r.kind = "throw"
                      THEN CaughtMessage(r, SignupFailedMessage)
                      ELSE ErrorOr(r, SignupFailedMessage)
          /\ UNCHANGED isAuthenticated
  /\ lastStep' = Step("signup_resume", c, r, Null, <<>>)
  /\ UNCHANGED <<user, auth_redirecting, pathname, search,
                 navigatedTo, mounted, integratedAuthUrl, ssoRedirects,
                 ui>>

signup_resume(c, r) ==
  /\ calls[c].op = "signup"
  /\ calls' = [calls EXCEPT ![c] = NoCall]
  /\ IF r.kind # "throw" /\ r.success
     THEN /\ status' = "success"
          /\ error' = Null
     ELSE /\ status' = "error"
          /\ error' = IF r.kind = "throw"
                      THEN CaughtMessage(r, SignupFailedMessage)
                      ELSE ErrorOr(r, SignupFailedMessage)
  /\ lastStep' = Step("signup_resume", c, r, Null, <<>>)
  /\ UNCHANGED <<user, isAuthenticated, auth_redirecting, pathname, search,
                 navigatedTo, mounted, integratedAuthUrl, ssoRedirects,
                 ui>>

\* logout changes nothing before its await
logout_begin(c) ==
  /\ FreeCall(c)
  /\ calls' = [calls EXCEPT ![c] = [op |-> "logout", isRedirecting |-> Null]]
  /\ lastStep' = Step("logout", c, NoResult, Null, <<>>)
  /\ UNCHANGED <<store, auth_redirecting, pathname, search, navigatedTo,
                 mounted, integratedAuthUrl, ssoRedirects,
                 ui>>

\* logout_resume whose catch block leaves the session as it is
logout_resume_keepsOnThrow(c, r) ==
  /\ calls[c].op = "logout"
  /\ calls' = [calls EXCEPT ![c] = NoCall]
  /\ IF r.kind = "throw" THEN UNCHANGED store
     ELSE /\ user' = NoUser
          /\ isAuthenticated' = FALSE
          /\ status' = "idle"
          /\ error' = Null
  /\ lastStep' = Step("logout_resume", c, r, Null, <<>>)
  /\ UNCHANGED <<auth_redirecting, pathname, search, navigatedTo,
                 mounted, integratedAuthUrl,
                 ssoRedirects,
                 ui>>

\* the try block and the catch block reset the state alike
logout_resume(c, r) ==
  /\ calls[c].op = "logout"
  /\ calls' = [calls EXCEPT ![c] = NoCall]
  /\ user' = NoUser
  /\ isAuthenticated' = FALSE
  /\ status' = "idle"
  /\ error' = Null
  /\ lastStep' = Step("logout_resume", c, r, Null, <<>>)
  /\ UNCHANGED <<auth_redirecting, pathname, search, navigatedTo,
                 mounted, integratedAuthUrl,
                 ssoRedirects,
                 ui>>

\* clearError, called from the mounted page
clearError ==
  /\ mounted
  /\ ~Leaving
  /\ error' = Null
  /\ lastStep' = Step("clearError", 0, NoResult, Null, <<>>)
  /\ UNCHANGED <<user, isAuthenticated, status, auth_redirecting, calls,
                 pathname, search, navigatedTo,
                 mounted, integratedAuthUrl, ssoRedirects,
                 ui>>

\* ----------------------------------------------------------------- AuthGuard
PUBLIC_ROUTES == {RootPath, LoginPath, SignupPath}
AUTH_ROUTES == {LoginPath, SignupPath}
PRIVATE_ROUTES == {DashboardPath, ProfilePath, SettingsPath}

isPublicRoute(p) == \E route \in PUBLIC_ROUTES : p = route
isAuthRoute(p) == \E route \in AUTH_ROUTES : startsWith(p, route)
isPrivateRoute(p) == \E route \in PRIVATE_ROUTES : startsWith(p, route)

\* '?callbackUrl=' of the template literal
CallbackParam ==
  <<"?", "c", "a", "l", "l", "b", "a", "c", "k", "U", "r", "l", "=">>

NoRedirect == [pathname |-> <<>>, search |-> <<>>]

\* AuthGuardRedirect without the early return of the route effect while the
\* status is 'loading'
AuthGuardRedirect_ignoresLoading(p, authenticated, st) ==
  IF isPublicRoute(p) THEN NoRedirect
  ELSE IF isAuthRoute(p) /\ authenticated
    THEN [pathname |-> DashboardPath, search |-> <<>>]
  ELSE IF isPrivateRoute(p) /\ ~authenticated
    THEN [pathname |-> LoginPath,
          search |-> CallbackParam \o encodeURIComponent(p)]
  ELSE NoRedirect

\* the router.replace of the route effect for the values it was rendered
\* with, NoRedirect when it returns without one
AuthGuardRedirect(p, authenticated, st) ==
  IF st = "loading" THEN NoRedirect
  ELSE IF isPublicRoute(p) THEN NoRedirect
  ELSE IF isAuthRoute(p) /\ authenticated
    THEN [pathname |-> DashboardPath, search |-> <<>>]
  ELSE IF isPrivateRoute(p) /\ ~authenticated
    THEN [pathname |-> LoginPath,
          search |-> CallbackParam \o encodeURIComponent(p)]
  ELSE NoRedirect

\* AuthGuardRender that shows the children only once a session is loaded
AuthGuardRender_untilSuccess(st) ==
  IF st = "success" THEN "children" ELSE "placeholder"

\* what the component returns for a store status
AuthGuardRender(st) == IF st = "loading" THEN "placeholder" ELSE "children"

\* first render and mount of a page load: the first effect calls loadUser(),
\* the second runs with the values of that render (taken before loadUser's
\* 'loading')
AuthGuardMount(c) ==
  /\ ~mounted
  /\ ~Leaving
  /\ mounted' = TRUE
  /\ UNCHANGED <<integratedAuthUrl, ui>>
  /\ loadUser_begin(c)
  /\ LET to == AuthGuardRedirect(pathname, isAuthenticated, status) IN
       IF to = NoRedirect THEN UNCHANGED <<pathname, search>>
       ELSE pathname' = to.pathname /\ search' = to.search

\* the route effect after a render in which pathname, isAuthenticated or
\* status changed
AuthGuardEffect ==
  /\ mounted
  /\ ~Leaving
  /\ LET to == AuthGuardRedirect(pathname, isAuthenticated, status) IN
       /\ to # NoRedirect
       /\ pathname' = to.pathname
       /\ search' = to.search
  /\ lastStep' = Step("AuthGuardEffect", 0, NoResult, Null,
                      <<"router.replace">>)
  /\ UNCHANGED <<store, auth_redirecting, calls, navigatedTo,
                 mounted, integratedAuthUrl,
                 ssoRedirects,
                 ui>>

\* ------------------------------------------------------------ environment
\* Navigate on a gate whose route change calls loadUser() again
Navigate_loadsUser(p) ==
  /\ mounted
  /\ ~Leaving
  /\ p # pathname
  /\ pathname' = p
  /\ search' = <<>>
  /\ \E c \in Call :
       /\ FreeCall(c)
       /\ calls' = [calls EXCEPT ![c] = [op |-> "loadUser",
                                         isRedirecting |-> auth_redirecting]]
  /\ status' = "loading"
  /\ lastStep' = Step("Navigate", 0, NoResult, Null, <<>>)
  /\ UNCHANGED <<user, isAuthenticated, error, auth_redirecting, navigatedTo,
                 mounted, integratedAuthUrl, ssoRedirects,
                 ui>>

\* the visitor follows a link to another route of the app
Navigate(p) ==
  /\ mounted
  /\ ~Leaving
  /\ p # pathname
  /\ pathname' = p
  /\ search' = <<>>
  /\ lastStep' = Step("Navigate", 0, NoResult, Null, <<>>)
  /\ UNCHANGED <<store, auth_redirecting, calls, navigatedTo,
                 mounted, integratedAuthUrl,
                 ssoRedirects,
                 ui>>

\* loadUser() called again on the mounted page
loadUser(c) ==
  /\ mounted
  /\ ~Leaving
  /\ loadUser_begin(c)
  /\ UNCHANGED <<pathname, search, mounted, integratedAuthUrl,
                 ui>>

login(c) == mounted /\ ~Leaving /\ login_begin(c)
signup(c) == mounted /\ ~Leaving /\ signup_begin(c)
logout(c) == mounted /\ ~Leaving /\ logout_begin(c)

\* the identity provider sends the browser back to the redirect URL: a new
\* page load of the same tab, which keeps sessionStorage and nothing else
SSOReturn ==
  /\ Leaving
  /\ ssoRedirects < MaxRedirects
  /\ user' = NoUser
  /\ isAuthenticated' = FALSE
  /\ status' = "idle"
  /\ error' = Null
  /\ calls' = [c \in Call |-> NoCall]
  /\ navigatedTo' = <<>>
  /\ mounted' = FALSE
  /\ lastStep' = Step("load", 0, NoResult, Null, <<>>)
  /\ UNCHANGED <<auth_redirecting, pathname, search, ssoRedirects,
                 integratedAuthUrl,
                 ui>>

Next ==
  \/ \E c \in Call : AuthGuardMount(c)
  \/ AuthGuardEffect
  \/ \E c \in Call : loadUser(c)
  \/ \E c \in Call, r \in ProbeResults : loadUser_resume(c, r)
  \/ \E c \in Call : login(c)
  \/ \E c \in Call, r \in LoginResults : login_resume(c, r)
  \/ \E c \in Call : signup(c)
  \/ \E c \in Call, r \in SignupResults : signup_resume(c, r)
  \/ \E c \in Call : logout(c)
  \/ \E c \in Call, r \in LogoutResults : logout_resume(c, r)
  \/ clearError
  \/ \E p \in Paths : Navigate(p)
  \/ SSOReturn

Spec == Init /\ [][Next]_vars

\* the app as the repository wires it: AuthGuard's mount effect is the only
\* caller of loadUser
NextGate ==
  \/ \E c \in Call : AuthGuardMount(c)
  \/ AuthGuardEffect
  \/ \E c \in Call, r \in ProbeResults : loadUser_resume(c, r)
  \/ \E c \in Call : login(c)
  \/ \E c \in Call, r \in LoginResults : login_resume(c, r)
  \/ \E c \in Call : signup(c)
  \/ \E c \in Call, r \in SignupResults : signup_resume(c, r)
  \/ \E c \in Call : logout(c)
  \/ \E c \in Call, r \in LogoutResults : logout_resume(c, r)
  \/ clearError
  \/ \E p \in Paths : Navigate(p)
  \/ SSOReturn

SpecGate == Init /\ [][NextGate]_vars

\* ------------------------------------ the persisted revision of the store
\* entities/auth/store.ts: create(persist(...)) with no redirect-loop guard;
\* a failed loadUser goes to NEXT_PUBLIC_INTEGRATED_AUTH_URL when it is set.
\* login, signup, logout and clearError are the same in both revisions.

\* values of NEXT_PUBLIC_INTEGRATED_AUTH_URL: not configured, or a login page
IntegratedAuthUrls ==
  {<<>>, <<"h", "t", "t", "p", "s", ":", "/", "/", "a", "u", "t", "h">>}

InitPersisted ==
  /\ InitialStore
  /\ InitialUi
  /\ auth_redirecting = Null
  /\ calls = [c \in Call |-> NoCall]
  /\ pathname \in Paths
  /\ search \in Searches
  /\ navigatedTo = <<>>
  /\ mounted = FALSE
  /\ ssoRedirects = 0
  /\ integratedAuthUrl \in IntegratedAuthUrls
  /\ lastStep = Step("load", 0, NoResult, Null, <<>>)

\* loadUser up to its await
loadUserPersisted_begin(c) ==
  /\ FreeCall(c)
  /\ status' = "loading"
  /\ calls' = [calls EXCEPT ![c] = [op |-> "loadUser", isRedirecting |-> Null]]
  /\ lastStep' = Step("loadUser", c, NoResult, auth_redirecting, <<>>)
  /\ UNCHANGED <<user, isAuthenticated, error, auth_redirecting, navigatedTo,
                 ssoRedirects>>

\* loadUser from the moment authAPI.getCurrentUser() settles with r: the
\* else branch and the catch block both redirect, then reset the session
loadUserPersisted_resume(c, r) ==
  /\ calls[c].op = "loadUser"
  /\ calls' = [calls EXCEPT ![c] = NoCall]
  /\ IF r.kind # "throw" /\ r.success /\ r.data # NoUser
     THEN /\ user' = r.data
          /\ isAuthenticated' = TRUE
          /\ status' = "success"
          /\ ssoRedirects' = 0
          /\ lastStep' = Step("loadUser_resume", c, r, Null, <<>>)
          /\ UNCHANGED navigatedTo
     ELSE /\ user' = NoUser
          /\ isAuthenticated' = FALSE
          /\ status' = "idle"
          /\ IF integratedAuthUrl # <<>>
             THEN /\ navigatedTo' = integratedAuthUrl
                  /\ ssoRedirects' = ssoRedirects + 1
                  /\ lastStep' = Step("loadUser_resume", c, r, Null,
                                      <<"location.href">>)
             ELSE /\ lastStep' = Step("loadUser_resume", c, r, Null, <<>>)
                  /\ UNCHANGED <<navigatedTo, ssoRedirects>>
  /\ UNCHANGED <<error, auth_redirecting, pathname, search, mounted,
                 integratedAuthUrl,
                 ui>>

AuthGuardMountPersisted(c) ==
  /\ ~mounted
  /\ ~Leaving
  /\ mounted' = TRUE
  /\ UNCHANGED <<integratedAuthUrl, ui>>
  /\ loadUserPersisted_begin(c)
  /\ LET to == AuthGuardRedirect(pathname, isAuthenticated, status) IN
       IF to = NoRedirect THEN UNCHANGED <<pathname, search>>
       ELSE pathname' = to.pathname /\ search' = to.search

loadUserPersisted(c) ==
  /\ mounted
  /\ ~Leaving
  /\ loadUserPersisted_begin(c)
  /\ UNCHANGED <<pathname, search, mounted, integratedAuthUrl,
                 ui>>

\* the login page sends the browser back to the app: a new page load, whose
\* store is rehydrated with the persisted user and isAuthenticated
IntegratedAuthReturn(p) ==
  /\ Leaving
  /\ ssoRedirects < MaxRedirects
  /\ pathname' = p
  /\ search' = <<>>
  /\ status' = "idle"
  /\ error' = Null
  /\ calls' = [c \in Call |-> NoCall]
  /\ navigatedTo' = <<>>
  /\ mounted' = FALSE
  /\ lastStep' = Step("load", 0, NoResult, Null, <<>>)
  /\ UNCHANGED <<user, isAuthenticated, auth_redirecting, ssoRedirects,
                 integratedAuthUrl,
                 ui>>

NextPersisted ==
  \/ \E c \in Call : AuthGuardMountPersisted(c)
  \/ AuthGuardEffect
  \/ \E c \in Call : loadUserPersisted(c)
  \/ \E c \in Call, r \in ProbeResults : loadUserPersisted_resume(c, r)
  \/ \E c \in Call : login(c)
  \/ \E c \in Call, r \in LoginResults : login_resume(c, r)
  \/ \E c \in Call : signup(c)
  \/ \E c \in Call, r \in SignupResults : signup_resume(c, r)
  \/ \E c \in Call : logout(c)
  \/ \E c \in Call, r \in LogoutResults : logout_resume(c, r)
  \/ clearError
  \/ \E p \in Paths : Navigate(p)
  \/ \E p \in Paths : IntegratedAuthReturn(p)

SpecPersisted == InitPersisted /\ [][NextPersisted]_vars

\* ------------------------------------------- sessionStorage out of reach
\* a browser that denies the page its storage: every access of
\* sessionStorage throws a SecurityError
StorageBlocked == "SecurityError"

InitBlockedStorage ==
  /\ InitialStore
  /\ InitialUi
  /\ auth_redirecting = StorageBlocked
  /\ calls = [c \in Call |-> NoCall]
  /\ pathname \in Paths
  /\ search \in Searches
  /\ navigatedTo = <<>>
  /\ mounted = FALSE
  /\ ssoRedirects = 0
  /\ integratedAuthUrl = <<>>
  /\ lastStep = Step("load", 0, NoResult, Null, <<>>)

\* loadUser when sessionStorage.getItem throws: the read at its entry is
\* outside the try block, so the promise is rejected before set() is called
loadUser_rejects ==
  /\ auth_redirecting = StorageBlocked
  /\ lastStep' = Step("loadUser", 0, NoResult, Null, <<"reject">>)
  /\ UNCHANGED <<store, auth_redirecting, calls, navigatedTo, ssoRedirects>>

AuthGuardMountBlocked ==
  /\ ~mounted
  /\ ~Leaving
  /\ mounted' = TRUE
  /\ UNCHANGED <<integratedAuthUrl, ui>>
  /\ loadUser_rejects
  /\ LET to == AuthGuardRedirect(pathname, isAuthenticated, status) IN
       IF to = NoRedirect THEN UNCHANGED <<pathname, search>>
       ELSE pathname' = to.pathname /\ search' = to.search

loadUserBlocked ==
  /\ mounted
  /\ ~Leaving
  /\ loadUser_rejects
  /\ UNCHANGED <<pathname, search, mounted, integratedAuthUrl,
                 ui>>

NextBlockedStorage ==
  \/ AuthGuardMountBlocked
  \/ AuthGuardEffect
  \/ loadUserBlocked
  \/ \E c \in Call : login(c)
  \/ \E c \in Call, r \in LoginResults : login_resume(c, r)
  \/ \E c \in Call : signup(c)
  \/ \E c \in Call, r \in SignupResults : signup_resume(c, r)
  \/ \E c \in Call : logout(c)
  \/ \E c \in Call, r \in LogoutResults : logout_resume(c, r)
  \/ clearError
  \/ \E p \in Paths : Navigate(p)

SpecBlockedStorage == InitBlockedStorage /\ [][NextBlockedStorage]_vars

\* ------------------------------------------------------ server middleware
\* middleware that sends the visitor without a session to the dashboard
middleware_redirectsToDashboard(p, authenticated) ==
  IF isPublicRoute(p) THEN NoRedirect
  ELSE IF isAuthRoute(p)
    THEN IF authenticated THEN [pathname |-> DashboardPath, search |-> <<>>]
         ELSE NoRedirect
  ELSE IF isPrivateRoute(p)
    THEN IF ~authenticated
         THEN [pathname |-> DashboardPath,
               search |-> CallbackParam \o encodeURIComponent(p)]
         ELSE NoRedirect
  ELSE NoRedirect

\* the middleware of the SSR deployment, with the same three route lists:
\* NoRedirect is NextResponse.next(), anything else the URL of
\* NextResponse.redirect; `authenticated` is isAuthenticated(request), the
\* presence of the 'auth-token' cookie
middleware(p, authenticated) ==
  IF isPublicRoute(p) THEN NoRedirect
  ELSE IF isAuthRoute(p)
    THEN IF authenticated THEN [pathname |-> DashboardPath, search |-> <<>>]
         ELSE NoRedirect
  ELSE IF isPrivateRoute(p)
    THEN IF ~authenticated
         THEN [pathname |-> LoginPath,
               search |-> CallbackParam \o encodeURIComponent(p)]
         ELSE NoRedirect
  ELSE NoRedirect

\* the listed routes, the error pages and two admin paths
RouteBases ==
  PUBLIC_ROUTES \cup PRIVATE_ROUTES
    \cup {ForbiddenPath, <<"/", "4", "0", "4">>, AdminUsersPath,
          <<"/", "a", "d", "m", "i", "n">>}

\* what a requested path may continue with after a route
Suffixes ==
  {<<>>, <<"/">>, <<"/", "e">>, <<"x">>, <<"/", "1">>, <<"-", "a">>}

\* paths of the requests that reach the middleware
RequestPaths == {base \o suffix : base \in RouteBases, suffix \in Suffixes}

InitMiddleware ==
  /\ InitialStore
  /\ InitialUi
  /\ auth_redirecting = Null
  /\ calls = [c \in Call |-> NoCall]
  /\ pathname = RootPath
  /\ search = <<>>
  /\ navigatedTo = <<>>
  /\ mounted = FALSE
  /\ ssoRedirects = 0
  /\ integratedAuthUrl = <<>>
  /\ lastStep = Step("load", 0, NoResult, Null, <<>>)

\* the browser requests p, with or without the cookie, and the middleware
\* answers
Request(p, authenticated) ==
  /\ pathname' = p
  /\ search' = <<>>
  /\ lastStep' = [op |-> "middleware", request |-> p,
                  authenticated |-> authenticated,
                  response |-> middleware(p, authenticated)]
  /\ UNCHANGED <<store, auth_redirecting, calls, navigatedTo, mounted,
                 ssoRedirects, integratedAuthUrl,
                 ui>>

NextMiddleware == \E p \in RequestPaths, a \in BOOLEAN : Request(p, a)

SpecMiddleware == InitMiddleware /\ [][NextMiddleware]_vars

\* ---------------------------------------------------------- useModalStore
\* modals open at once
MaxModals == 3

\* the ids generateId() hands out: one that no open modal has
ModalIds == 1 .. MaxModals

\* closeModal() called without an id
NoId == 0

\* ids of the open modals
OpenIds == {modals[i].id : i \in 1 .. Len(modals)}

\* modal.onClose?.(): the call of the modal's callback, if it has one
onClose(modal) == IF modal.hasOnClose THEN <<modal.id>> ELSE <<>>

\* the record kept in lastStep by the modal actions: the modals the action
\* was asked to close, the stack before it, the onClose calls it made
ModalStep(op, target, calledBack) ==
  [op |-> op, target |-> target, before |-> modals, effects |-> calledBack]

\* openModal(modal): append the modal with a new id
openModal(id, hasOnClose) ==
  /\ Len(modals) < MaxModals
  /\ id \notin OpenIds
  /\ modals' = Append(modals, [id |-> id, hasOnClose |-> hasOnClose])
  /\ lastStep' = ModalStep("openModal", {}, <<>>)
  /\ UNCHANGED <<session, tabs, activeTab, apiState, fetches>>

\* what closeModal(id) leaves in the stack: without an id the stack without
\* its last modal, with an id the modals of another id
closeModal_modals(id) ==
  IF id = NoId
  THEN IF modals = <<>> THEN <<>> ELSE SubSeq(modals, 1, Len(modals) - 1)
  ELSE SelectSeq(modals, LAMBDA m : m.id # id)

\* the onClose calls of closeModal(id): of the popped modal, or of the modal
\* found by id
closeModal_onClose(id) ==
  IF id = NoId
  THEN IF modals = <<>> THEN <<>> ELSE onClose(modals[Len(modals)])
  ELSE IF id \in OpenIds
    THEN onClose(CHOOSE m \in {modals[i] : i \in 1 .. Len(modals)} : m.id = id)
    ELSE <<>>

\* the modals closeModal(id) is asked to close
closeModal_target(id) ==
  IF id = NoId
  THEN IF modals = <<>> THEN {} ELSE {modals[Len(modals)].id}
  ELSE {id} \cap OpenIds

closeModal(id) ==
  /\ modals' = closeModal_modals(id)
  /\ lastStep' = ModalStep("closeModal", closeModal_target(id),
                           closeModal_onClose(id))
  /\ UNCHANGED <<session, tabs, activeTab, apiState, fetches>>

RECURSIVE forEach_onClose(_)
forEach_onClose(ms) ==
  IF ms = <<>> THEN <<>> ELSE onClose(Head(ms)) \o forEach_onClose(Tail(ms))

closeAllModals ==
  /\ modals' = <<>>
  /\ lastStep' = ModalStep("closeAllModals", OpenIds, forEach_onClose(modals))
  /\ UNCHANGED <<session, tabs, activeTab, apiState, fetches>>

\* the onClose handler ModalProvider gives the Modal of an open modal:
\* modal.onClose?.() and then closeModal(modal.id)
ModalProvider_onClose(i) ==
  /\ i \in 1 .. Len(modals)
  /\ modals' = closeModal_modals(modals[i].id)
  /\ lastStep' = ModalStep("ModalProvider", {modals[i].id},
                           onClose(modals[i])
                             \o closeModal_onClose(modals[i].id))
  /\ UNCHANGED <<session, tabs, activeTab, apiState, fetches>>

InitModal ==
  /\ InitialStore
  /\ InitialUi
  /\ auth_redirecting = Null
  /\ calls = [c \in Call |-> NoCall]
  /\ pathname = RootPath
  /\ search = <<>>
  /\ navigatedTo = <<>>
  /\ mounted = FALSE
  /\ ssoRedirects = 0
  /\ integratedAuthUrl = <<>>
  /\ lastStep = ModalStep("create", {}, <<>>)

NextModal ==
  \/ \E id \in ModalIds, hasOnClose \in BOOLEAN : openModal(id, hasOnClose)
  \/ \E id \in ModalIds \cup {NoId} : closeModal(id)
  \/ closeAllModals
  \/ \E i \in 1 .. MaxModals : ModalProvider_onClose(i)

SpecModal == InitModal /\ [][NextModal]_vars

\* ------------------------------------------------------------ useTabStore
\* tabs in a tab list
MaxTabs == 2

TabIds == {"a", "b", "c"}

\* badge: undefined
NoBadge == 0

\* the TabItems a page passes to setTabs (label and icon play no part)
TabItems == [id : TabIds, disabled : BOOLEAN, badge : {NoBadge}]

\* the tab lists a page passes to setTabs
TabLists == UNION {[1 .. n -> TabItems] : n \in 0 .. MaxTabs}

TabStep(op) == [op |-> op, effects |-> <<>>]

\* tabs.findIndex((t) => t.id === activeTab), counted from 1; 0 for -1
findIndex(ts, id) ==
  IF \E i \in 1 .. Len(ts) : ts[i].id = id
  THEN CHOOSE i \in 1 .. Len(ts) :
         /\ ts[i].id = id
         /\ \A j \in 1 .. i - 1 : ts[j].id # id
  ELSE 0

\* setTabs(tabs, defaultTab): defaultTab || tabs[0]?.id, then || null
setTabs(newTabs, defaultTab) ==
  /\ tabs' = newTabs
  /\ activeTab' = IF Truthy(defaultTab) THEN defaultTab
                  ELSE IF newTabs # <<>> THEN newTabs[1].id
                  ELSE Null
  /\ lastStep' = TabStep("setTabs")
  /\ UNCHANGED <<session, modals, apiState, fetches>>

\* setActiveTab(tabId): only a tab that exists and is not disabled
setActiveTab(tabId) ==
  /\ activeTab' = IF findIndex(tabs, tabId) # 0
                     /\ ~tabs[findIndex(tabs, tabId)].disabled
                  THEN tabId ELSE activeTab
  /\ lastStep' = TabStep("setActiveTab")
  /\ UNCHANGED <<session, modals, tabs, apiState, fetches>>

nextTab ==
  /\ LET currentIndex == findIndex(tabs, activeTab) IN
       activeTab' = IF currentIndex < Len(tabs)
                       /\ ~tabs[currentIndex + 1].disabled
                    THEN tabs[currentIndex + 1].id ELSE activeTab
  /\ lastStep' = TabStep("nextTab")
  /\ UNCHANGED <<session, modals, tabs, apiState, fetches>>

previousTab ==
  /\ LET currentIndex == findIndex(tabs, activeTab) IN
       activeTab' = IF currentIndex > 1 /\ ~tabs[currentIndex - 1].disabled
                    THEN tabs[currentIndex - 1].id ELSE activeTab
  /\ lastStep' = TabStep("previousTab")
  /\ UNCHANGED <<session, modals, tabs, apiState, fetches>>

setTabDisabled(tabId, disabled) ==
  /\ tabs' = [i \in 1 .. Len(tabs) |->
               IF tabs[i].id = tabId
               THEN [tabs[i] EXCEPT !.disabled = disabled] ELSE tabs[i]]
  /\ lastStep' = TabStep("setTabDisabled")
  /\ UNCHANGED <<session, modals, activeTab, apiState, fetches>>

setTabBadge(tabId, badge) ==
  /\ tabs' = [i \in 1 .. Len(tabs) |->
               IF tabs[i].id = tabId
               THEN [tabs[i] EXCEPT !.badge = badge] ELSE tabs[i]]
  /\ lastStep' = TabStep("setTabBadge")
  /\ UNCHANGED <<session, modals, activeTab, apiState, fetches>>

resetTabs ==
  /\ tabs' = <<>>
  /\ activeTab' = Null
  /\ lastStep' = TabStep("resetTabs")
  /\ UNCHANGED <<session, modals, apiState, fetches>>

InitTab ==
  /\ InitialStore
  /\ InitialUi
  /\ auth_redirecting = Null
  /\ calls = [c \in Call |-> NoCall]
  /\ pathname = RootPath
  /\ search = <<>>
  /\ navigatedTo = <<>>
  /\ mounted = FALSE
  /\ ssoRedirects = 0
  /\ integratedAuthUrl = <<>>
  /\ lastStep = TabStep("create")

NextTab ==
  \/ \E ts \in TabLists, defaultTab \in TabIds \cup {Null} :
       setTabs(ts, defaultTab)
  \/ \E tabId \in TabIds : setActiveTab(tabId)
  \/ nextTab
  \/ previousTab
  \/ \E tabId \in TabIds, disabled \in BOOLEAN : setTabDisabled(tabId, disabled)
  \/ \E tabId \in TabIds, badge \in {NoBadge, 5} : setTabBadge(tabId, badge)
  \/ resetTabs

SpecTab == InitTab /\ [][NextTab]_vars

\* ----------------------------------------------------------- useApiClient
\* fetches started through one hook
MaxFetches == 3

\* the fallback message of the hook's `||` and `instanceof Error ? :`
UnknownErrorMessage == "unknown error"

\* outcomes of apiClient.fetch(apiSpec): success with and without data, a
\* failure with and without a message, a rejection with and without an Error
FetchResults ==
  {[kind |-> "response", success |-> TRUE, data |-> "data",
    statusCode |-> 200, error |-> Null, isError |-> FALSE],
   [kind |-> "response", success |-> TRUE, data |-> Null,
    statusCode |-> 204, error |-> Null, isError |-> FALSE],
   [kind |-> "response", success |-> FALSE, data |-> Null,
    statusCode |-> 404, error |-> "Not Found", isError |-> FALSE],
   [kind |-> "response", success |-> FALSE, data |-> Null,
    statusCode |-> 500, error |-> "", isError |-> FALSE],
   [kind |-> "throw", success |-> FALSE, data |-> Null,
    statusCode |-> 0, error |-> "Failed to fetch", isError |-> TRUE],
   [kind |-> "throw", success |-> FALSE, data |-> Null,
    statusCode |-> 0, error |-> Null, isError |-> FALSE]}

\* the record kept in lastStep by the hook's functions
HookStep(op, f) == [op |-> op, fetch |-> f, effects |-> <<>>]

\* some fetch is awaiting apiClient.fetch
InFlight == \E i \in 1 .. Len(fetches) : fetches[i] = "pending"

\* fetch(apiSpec) up to its await: loading true, error null
fetch_begin ==
  /\ Len(fetches) < MaxFetches
  /\ fetches' = Append(fetches, "pending")
  /\ apiState' = [apiState EXCEPT !.loading = TRUE, !.error = Null]
  /\ lastStep' = HookStep("fetch", Len(fetches) + 1)
  /\ UNCHANGED <<session, modals, tabs, activeTab>>

\* fetch number f from the moment apiClient.fetch settles with r; `from` is
\* the fetch whose result the state holds
fetch_resume(f, r) ==
  /\ f \in 1 .. Len(fetches)
  /\ fetches[f] = "pending"
  /\ fetches' = [fetches EXCEPT ![f] = "done"]
  /\ apiState' =
       IF r.kind = "throw"
       THEN [data |-> Null, loading |-> FALSE,
             error |-> CaughtMessage(r, UnknownErrorMessage),
             statusCode |-> Null, from |-> f]
       ELSE IF r.success
       THEN [data |-> r.data, loading |-> FALSE, error |-> Null,
             statusCode |-> r.statusCode, from |-> f]
       ELSE [data |-> Null, loading |-> FALSE,
             error |-> ErrorOr(r, UnknownErrorMessage),
             statusCode |-> r.statusCode, from |-> f]
  /\ lastStep' = HookStep("fetch_resume", f)
  /\ UNCHANGED <<session, modals, tabs, activeTab>>

reset ==
  /\ apiState' = InitialApiState
  /\ lastStep' = HookStep("reset", 0)
  /\ UNCHANGED <<session, modals, tabs, activeTab, fetches>>

setData(data) ==
  /\ apiState' = [apiState EXCEPT !.data = data]
  /\ lastStep' = HookStep("setData", 0)
  /\ UNCHANGED <<session, modals, tabs, activeTab, fetches>>

InitHook ==
  /\ InitialStore
  /\ InitialUi
  /\ auth_redirecting = Null
  /\ calls = [c \in Call |-> NoCall]
  /\ pathname = RootPath
  /\ search = <<>>
  /\ navigatedTo = <<>>
  /\ mounted = FALSE
  /\ ssoRedirects = 0
  /\ integratedAuthUrl = <<>>
  /\ lastStep = HookStep("mount", 0)

NextHook ==
  \/ fetch_begin
  \/ \E f \in 1 .. MaxFetches, r \in FetchResults : fetch_resume(f, r)
  \/ reset
  \/ \E data \in {Null, "local"} : setData(data)

SpecHook == InitHook /\ [][NextHook]_vars

\* ------------------------------------------------- vocabulary of the claims
\* the step that led here is a loadUser resuming after its probe settled
LoadUserEnded == lastStep.op = "loadUser_resume"

\* the probe of that step answered 200 with a user record
ProbeAuthenticated ==
  /\ lastStep.result.kind = "response"
  /\ lastStep.result.success
  /\ lastStep.result.data # NoUser

\* the probe of that step answered 401
ProbeUnauthenticated ==
  /\ lastStep.result.kind = "response"
  /\ ~lastStep.result.success
  /\ lastStep.result.statusCode = 401

\* the probe of that step failed below HTTP: the promise rejected, or the
\* API client reported the failed fetch as statusCode 0
ProbeTransientError ==
  \/ lastStep.result.kind = "throw"
  \/ lastStep.result.kind = "response" /\ lastStep.result.statusCode = 0

\* the step assigned window.location.href
StepNavigated ==
  \E i \in 1 .. Len(lastStep.effects) : lastStep.effects[i] = "location.href"

\* the admin set of the route protection diagram: paths under /admin
ADMIN_ROUTES == {<<"/", "a", "d", "m", "i", "n">>}
isAdminRoute(p) == \E route \in ADMIN_ROUTES : startsWith(p, route)

\* the browser's decodeURIComponent, on the escapes of EscapeChar
Unescape(h1, h2) ==
  CASE <<h1, h2>> = <<"2", "F">> -> "/"
    [] <<h1, h2>> = <<"3", "A">> -> ":"
    [] <<h1, h2>> = <<"3", "F">> -> "?"
    [] <<h1, h2>> = <<"3", "D">> -> "="
    [] <<h1, h2>> = <<"2", "6">> -> "&"
    [] <<h1, h2>> = <<"2", "5">> -> "%"
    [] <<h1, h2>> = <<"2", "0">> -> " "
    [] OTHER -> "?invalid"

RECURSIVE decodeURIComponent(_)
decodeURIComponent(s) ==
  IF s = <<>> THEN <<>>
  ELSE IF Head(s) = "%" /\ Len(s) >= 3
    THEN <<Unescape(s[2], s[3])>> \o decodeURIComponent(SubSeq(s, 4, Len(s)))
  ELSE <<Head(s)>> \o decodeURIComponent(Tail(s))

\* the value of the redirect parameter of an identity-provider URL
RedirectValue(url) ==
  SubSeq(url, Len(SSO_LOGIN_URL) + Len(RedirectParam) + 1, Len(url))

\* characters that would end or split a query parameter value
QueryDelimiters == {"/", ":", "?", "=", "&", " "}

\* ---------------------------------------------------------------- claims
\* C1: on a path outside the public list, with a store status other than
\* 'success' (idle, loading, error, the first render included), AuthGuard
\* does not return its children.
C1_NoFlash ==
  (~isPublicRoute(pathname) /\ status # "success")
    => AuthGuardRender(status) # "children"

\* C2: between two redirects to the identity provider some loadUser call
\* ends without redirecting: two 401 probes in a row redirect at most once.
C2_RedirectLoopBound == ssoRedirects <= 1

\* C3 (scenario F): a loadUser call made with the guard flag set whose probe
\* answers 401 ends with the flag cleared, status idle, no user, and without
\* navigating.
C3_ScenarioF ==
  (LoadUserEnded /\ ProbeUnauthenticated /\ lastStep.entryFlag = "true")
    => /\ auth_redirecting = Null
       /\ status = "idle"
       /\ user = NoUser
       /\ ~isAuthenticated
       /\ ~StepNavigated

\* C4 (scenario E): when the probe answers 401 and the guard flag is unset,
\* loadUser sets the flag and then assigns window.location.href the SSO
\* login URL whose redirect parameter is the URL-encoded current URL: the
\* parameter value holds no delimiter and decodes to window.location.href.
C4_ScenarioE ==
  (LoadUserEnded /\ ProbeUnauthenticated /\ lastStep.flagBefore # "true")
    => /\ auth_redirecting = "true"
       /\ lastStep.effects = <<"setItem", "location.href">>
       /\ startsWith(navigatedTo, SSO_LOGIN_URL \o RedirectParam)
       /\ \A i \in 1 .. Len(RedirectValue(navigatedTo)) :
            RedirectValue(navigatedTo)[i] \notin QueryDelimiters
       /\ decodeURIComponent(RedirectValue(navigatedTo)) = href

\* a 401 probe with the flag unset, on a URL that has a query string
C4_Witness ==
  /\ LoadUserEnded
  /\ ProbeUnauthenticated
  /\ lastStep.flagBefore # "true"
  /\ StepNavigated
  /\ search # <<>>

\* C5: a loadUser call whose probe answers 200 with a user record ends with
\* that user in the store, isAuthenticated, status 'success' and the guard
\* flag removed, whatever the flag was.
C5_SuccessClearsFlag ==
  (LoadUserEnded /\ ProbeAuthenticated)
    => /\ user = lastStep.result.data
       /\ isAuthenticated
       /\ status = "success"
       /\ auth_redirecting = Null

\* a successful probe of a call made with the flag set
C5_Witness ==
  /\ LoadUserEnded
  /\ ProbeAuthenticated
  /\ lastStep.entryFlag = "true"
  /\ user \in Users

\* C6: on a path of the admin set AuthGuard returns its children only when
\* the session is authenticated and the user's role is admin.
C6_AdminOnly ==
  (isAdminRoute(pathname) /\ AuthGuardRender(status) = "children")
    => (isAuthenticated /\ status = "success" /\ user.role = "admin")

\* C7 (scenario C): on a path of the admin set, with an authenticated
\* session whose role is not admin, the route effect redirects to /403.
C7_ForbiddenRedirect ==
  (isAdminRoute(pathname) /\ isAuthenticated /\ status = "success"
     /\ user.role # "admin")
    => AuthGuardRedirect(pathname, isAuthenticated, status).pathname
         = ForbiddenPath

\* C8: a loadUser call whose probe fails below HTTP (getCurrentUser rejects,
\* or the fetch fails and is reported as statusCode 0) does not assign
\* window.location.href, whatever the guard flag is.
C8_NoRedirectOnTransientError ==
  (LoadUserEnded /\ ProbeTransientError) => ~StepNavigated

\* C9: a loadUser call whose probe ends in a transient error leaves status
\* 'error' with the message recorded, and the guard flag as it was before
\* the call.
C9_TransientError ==
  (LoadUserEnded /\ ProbeTransientError)
    => /\ status = "error"
       /\ error # Null
       /\ auth_redirecting = lastStep.entryFlag

C11_NoWriteAfterRedirect == (Leaving /\ LoadUserEnded) => StepNavigated

\* C12: the store holds a user exactly when its status is the authenticated
\* one ('success').
C12_UserIffAuthenticated == (user # NoUser) <=> (status = "success")

\* the route tests of the gate that hold for a path
RouteClasses(p) ==
  (IF isPublicRoute(p) THEN {"public"} ELSE {})
    \cup (IF isAuthRoute(p) THEN {"auth"} ELSE {})
    \cup (IF isPrivateRoute(p) THEN {"private"} ELSE {})

\* C13: exactly one of the gate's route tests (public, auth, private) holds
\* for the path shown.
C13_ExactlyOneClass == Cardinality(RouteClasses(pathname)) = 1

\* C14: a request for a path that is in none of the route lists, made
\* without a session, is not passed by the middleware, and the gate that
\* renders the page for a logged-out store neither shows the children nor
\* lets the visitor stay.
C14_FailClosed ==
  (lastStep.op = "middleware" /\ RouteClasses(lastStep.request) = {}
     /\ ~lastStep.authenticated)
    => /\ lastStep.response # NoRedirect
       /\ \/ AuthGuardRender("idle") # "children"
          \/ AuthGuardRedirect(lastStep.request, FALSE, "idle") # NoRedirect

Entitled ==
  \/ isPublicRoute(pathname)
  \/ pathname = ForbiddenPath
  \/ isAdminRoute(pathname) /\ isAuthenticated /\ user.role = "admin"
  \/ isPrivateRoute(pathname) /\ isAuthenticated
  \/ RouteClasses(pathname) = {} /\ isAuthenticated

LoadUsersInFlight == Cardinality({c \in Call : calls[c].op = "loadUser"})

\* C17: with the gate as the only caller, loadUser runs once per mount and
\* route changes start none: at most one probe is in flight whatever the
\* visitor navigates to, none before the mount, and none is left to redirect
\* again once a redirect has started.
C17_OncePerMount ==
  /\ LoadUsersInFlight <= 1
  /\ ~mounted => LoadUsersInFlight = 0
  /\ Leaving => LoadUsersInFlight = 0

\* the visitor moved to a private route while the probe of the mount is
\* still awaited
C17_Witness ==
  /\ lastStep.op = "Navigate"
  /\ isPrivateRoute(pathname)
  /\ LoadUsersInFlight = 1
  /\ status = "loading"

\* C18: logout ends with the logged-out state (no user, not authenticated,
\* status idle, no error) when authAPI.logout() resolves and when it throws.
C18_LogoutResets ==
  lastStep.op = "logout_resume"
    => /\ user = NoUser
       /\ ~isAuthenticated
       /\ status = "idle"
       /\ error = Null

\* a logout whose API call threw
C18_Witness ==
  /\ lastStep.op = "logout_resume"
  /\ lastStep.result.kind = "throw"
  /\ user = NoUser
  /\ status = "idle"

\* C19: for an authenticated visitor on an auth route (/login, /signup) the
\* route effect of the gate replaces the route with /dashboard, and the
\* middleware answers the request with a redirect to /dashboard.
C19_AuthRouteToDashboard ==
  (isAuthRoute(pathname) /\ isAuthenticated /\ status # "loading")
    => /\ AuthGuardRedirect(pathname, isAuthenticated, status).pathname
            = DashboardPath
       /\ middleware(pathname, TRUE).pathname = DashboardPath

\* C20: a run of the gate's route effect performs no navigation of its own
\* (and changes neither the store nor the guard flag).
C20_GateSideEffectFree ==
  lastStep.op = "AuthGuardEffect" => lastStep.effects = <<>>

StepSetFlag ==
  \E i \in 1 .. Len(lastStep.effects) : lastStep.effects[i] = "setItem"

\* C22: the guard flag is set only by the loadUser step that goes on to
\* assign window.location.href, as the write just before it; every step
\* after which the flag is newly 'true' is such a step, so the flag is
\* 'true' only on a page that is leaving or on the page load that follows.
C22_FlagLifecycle ==
  /\ StepSetFlag
       => (LoadUserEnded /\ lastStep.effects = <<"setItem", "location.href">>)
  /\ (auth_redirecting = "true" /\ lastStep.flagBefore # "true")
       => (LoadUserEnded /\ StepNavigated)
  /\ auth_redirecting = "true" => (Leaving \/ ~mounted)

\* the page load after the identity provider sent the browser back, with
\* the flag of the redirect still in sessionStorage
C22_Witness ==
  /\ auth_redirecting = "true"
  /\ lastStep.op = "load"
  /\ ~mounted
  /\ ssoRedirects = 1

\* C24: a loadUser call that completes without navigating does not leave
\* the status at 'loading': it ends in 'success' or, for an unauthenticated
\* or failed probe, in 'idle'.
C24_LeavesLoading ==
  (LoadUserEnded /\ ~StepNavigated)
    => /\ status # "loading"
       /\ status = IF ProbeAuthenticated THEN "success" ELSE "idle"

\* a 401 probe that ends without a redirect
C24_Witness ==
  /\ LoadUserEnded
  /\ ~StepNavigated
  /\ ProbeUnauthenticated
  /\ status = "idle"

\* C25: isAuthenticated is true exactly when the store holds a user.
C25_AuthenticatedIffUser == isAuthenticated <=> (user # NoUser)

\* a signup that completed on a logged-in session
C25_Witness ==
  /\ lastStep.op = "signup_resume"
  /\ isAuthenticated
  /\ user \in Users

\* the promise of the store action called in this step was rejected
StepRejected ==
  \E i \in 1 .. Len(lastStep.effects) : lastStep.effects[i] = "reject"

\* C23: no call of loadUser, login, signup or logout ends with a rejected
\* promise, also when sessionStorage cannot be read or written.
C23_NothingThrown == ~StepRejected

\* C26: a loadUser call that resumes right after a login completed with
\* success (so it was awaiting its probe when the login resolved) leaves the
\* session authenticated, with a user in the store.
C26_LoginNotUndone ==
  [][(/\ lastStep.op = "login_resume"
      /\ isAuthenticated
      /\ status = "success"
      /\ user = lastStep.result.data
      /\ lastStep'.op = "loadUser_resume")
       => (isAuthenticated' /\ user' # NoUser)]_vars

\* C27: when the middleware answers a request with a redirect, it passes
\* the request for the redirect target made with the same cookie; when the
\* gate's route effect replaces the route, it takes no redirect on the new
\* route for the same session, whatever the status.
C27_NoRedirectChain ==
  lastStep.op = "middleware"
    => /\ lastStep.response # NoRedirect
            => middleware(lastStep.response.pathname, lastStep.authenticated)
                 = NoRedirect
       /\ \A st \in AsyncState :
            LET to == AuthGuardRedirect(lastStep.request,
                                        lastStep.authenticated, st)
            IN to # NoRedirect
                 => AuthGuardRedirect(to.pathname, lastStep.authenticated, st)
                      = NoRedirect

\* a request with the cookie for a path under an auth route, redirected to
\* the dashboard
C27_Witness ==
  /\ lastStep.op = "middleware"
  /\ lastStep.authenticated
  /\ lastStep.response.pathname = DashboardPath
  /\ AuthGuardRedirect(lastStep.request, TRUE, "success").pathname
       = DashboardPath

\* number of times x occurs in a sequence
Count(seq, x) == Cardinality({i \in 1 .. Len(seq) : seq[i] = x})

\* C28: a step that closes modals (closeModal with or without an id,
\* closeAllModals, the ModalProvider handler) calls the onClose of each modal
\* it closes exactly once, if the modal has one, and of no other modal, and
\* leaves the other modals in their order.
C28_OnCloseOnce ==
  lastStep.op \in {"closeModal", "closeAllModals", "ModalProvider"}
    => /\ modals
            = SelectSeq(lastStep.before, LAMBDA m : m.id \notin lastStep.target)
       /\ \A i \in 1 .. Len(lastStep.before) :
            LET m == lastStep.before[i] IN
              Count(lastStep.effects, m.id)
                = IF m.id \in lastStep.target /\ m.hasOnClose THEN 1 ELSE 0

\* C29: activeTab is null or the id of a tab of the list that is not
\* disabled.
C29_ActiveTabEnabled ==
  \/ activeTab = Null
  \/ \E i \in 1 .. Len(tabs) : tabs[i].id = activeTab /\ ~tabs[i].disabled

\* C30: the hook's loading is true exactly while a fetch started through
\* it is awaiting its response, and once the last of overlapping fetches has
\* settled the hook holds the result of the fetch that was started last.
C30_LoadingAndLastFetch ==
  /\ apiState.loading <=> InFlight
  /\ (lastStep.op = "fetch_resume" /\ ~InFlight)
       => apiState.from = Len(fetches)


====
